---- MODULE Spec2Model ----
(***************************************************************************)
(* rollup-plugin-rebase (src/src/index.js): the resolveId / load /         *)
(* generateBundle hooks of one plugin instance, their three registries     *)
(* (files, assets, wrappers) and root.                                     *)
(*                                                                         *)
(* A string is a sequence of lexemes: the separators "/", ".", "~", "\\"   *)
(* and words without separators ("logo", "png", a hash).  The path         *)
(* functions of Node's posix `path` module are operators over these        *)
(* sequences, computed the way Node computes them.                         *)
(***************************************************************************)
EXTENDS Integers, Sequences, FiniteSets, Bags, TLC

(***************************************************************************)
(* Strings                                                                 *)
(***************************************************************************)
Slash == "/"
Dot == "."

\* JavaScript's null, undefined and "": no importer, no root yet
Null == <<>>

\* the largest index of lexeme t in s, 0 when s has none
LastIndexOf(s, t) ==
    LET hits == {k \in 1..Len(s) : s[k] = t}
    IN  IF hits = {} THEN 0 ELSE CHOOSE k \in hits : \A j \in hits : j <= k

EndsWith(s, suffix) ==
    /\ Len(suffix) <= Len(s)
    /\ SubSeq(s, Len(s) - Len(suffix) + 1, Len(s)) = suffix

RECURSIVE StripTrailingSlashes(_)
StripTrailingSlashes(p) ==
    IF Len(p) > 0 /\ p[Len(p)] = Slash
    THEN StripTrailingSlashes(SubSeq(p, 1, Len(p) - 1))
    ELSE p

\* the last path segment of p, trailing slashes ignored
LastSegment(p) ==
    LET q == StripTrailingSlashes(p)
    IN  SubSeq(q, LastIndexOf(q, Slash) + 1, Len(q))

\* the segments of p between slashes, empty ones dropped
RECURSIVE Split(_)
Split(p) ==
    IF p = <<>> THEN <<>>
    ELSE IF p[1] = Slash THEN Split(Tail(p))
    ELSE LET firstSlash == IF \E k \in 1..Len(p) : p[k] = Slash
                           THEN CHOOSE k \in 1..Len(p) :
                                    /\ p[k] = Slash
                                    /\ \A j \in 1..(k - 1) : p[j] # Slash
                           ELSE Len(p) + 1
         IN  <<SubSeq(p, 1, firstSlash - 1)>> \o Split(SubSeq(p, firstSlash, Len(p)))

RECURSIVE JoinSegments(_)
JoinSegments(segs) ==
    IF segs = <<>> THEN <<>>
    ELSE IF Len(segs) = 1 THEN segs[1]
    ELSE segs[1] \o <<Slash>> \o JoinSegments(Tail(segs))

IsAbsolute(p) == Len(p) > 0 /\ p[1] = Slash

\* path.js normalizeString: "." segments dropped, ".." pops a segment;
\* above the top ".." is kept only when allowAboveRoot
RECURSIVE normalizeString(_, _, _)
normalizeString(segs, allowAboveRoot, acc) ==
    IF segs = <<>> THEN acc
    ELSE LET seg == Head(segs) IN
         IF seg = <<Dot>> THEN normalizeString(Tail(segs), allowAboveRoot, acc)
         ELSE IF seg = <<Dot, Dot>>
         THEN IF Len(acc) > 0 /\ acc[Len(acc)] # <<Dot, Dot>>
              THEN normalizeString(Tail(segs), allowAboveRoot,
                                   SubSeq(acc, 1, Len(acc) - 1))
              ELSE IF allowAboveRoot
                   THEN normalizeString(Tail(segs), allowAboveRoot,
                                        Append(acc, seg))
                   ELSE normalizeString(Tail(segs), allowAboveRoot, acc)
         ELSE normalizeString(Tail(segs), allowAboveRoot, Append(acc, seg))

\* path.normalize
normalize(p) ==
    IF p = <<>> THEN <<Dot>>
    ELSE LET abs == IsAbsolute(p)
             trailing == p[Len(p)] = Slash
             body == JoinSegments(normalizeString(Split(p), ~abs, <<>>))
         IN  IF body = <<>>
             THEN IF abs THEN <<Slash>>
                  ELSE IF trailing THEN <<Dot, Slash>> ELSE <<Dot>>
             ELSE (IF abs THEN <<Slash>> ELSE <<>>) \o body
                  \o (IF trailing THEN <<Slash>> ELSE <<>>)

\* path.extname: from the last dot of the last segment; "" when there is no
\* dot, when the dot starts the segment, and for ".."
extname(p) ==
    LET base == LastSegment(p)
        startDot == LastIndexOf(base, Dot)
    IN  IF startDot = 0 \/ startDot = 1 \/ base = <<Dot, Dot>>
        THEN <<>>
        ELSE SubSeq(base, startDot, Len(base))

\* path.basename(p, ext): the last segment, without ext when it ends with
\* ext and is more than ext
basename(p, ext) ==
    LET base == LastSegment(p)
    IN  IF ext # <<>> /\ ext = p THEN <<>>
        ELSE IF ext # <<>> /\ EndsWith(base, ext) /\ base # ext
        THEN SubSeq(base, 1, Len(base) - Len(ext))
        ELSE base

\* path.dirname: up to the last slash that follows the first character,
\* trailing slashes ignored
dirname(p) ==
    LET q == StripTrailingSlashes(p)
        cut == LastIndexOf(q, Slash)
    IN  IF p = <<>> THEN <<Dot>>
        ELSE IF cut <= 1 THEN (IF IsAbsolute(p) THEN <<Slash>> ELSE <<Dot>>)
        ELSE IF IsAbsolute(p) /\ cut = 2 THEN <<Slash, Slash>>
        ELSE SubSeq(q, 1, cut - 1)

\* the process's working directory, which path.resolve starts from
Cwd == <<Slash, "p">>

\* path.resolve(from, to): to when it is absolute, else from/to (from
\* itself resolved against the working directory), normalized, no trailing
\* slash
resolve2(from, to) ==
    LET joined == IF IsAbsolute(to) THEN to
                  ELSE IF IsAbsolute(from) THEN from \o <<Slash>> \o to
                  ELSE Cwd \o <<Slash>> \o from \o <<Slash>> \o to
    IN  <<Slash>> \o JoinSegments(normalizeString(Split(joined), FALSE, <<>>))

\* a slip of the entry's path: taken as given, not resolved
resolve1_AsGiven(to) == to

\* path.resolve(to)
resolve1(to) == resolve2(Cwd, to)

\* path.join(a, b): the non-empty arguments joined by "/", normalized
join2(a, b) ==
    normalize(IF a = <<>> THEN b
              ELSE IF b = <<>> THEN a
              ELSE a \o <<Slash>> \o b)

\* path.join(a, b, c)
join3(a, b, c) ==
    normalize(IF a = <<>> THEN (IF b = <<>> THEN c
                                ELSE IF c = <<>> THEN b
                                ELSE b \o <<Slash>> \o c)
              ELSE IF b = <<>> THEN (IF c = <<>> THEN a
                                     ELSE a \o <<Slash>> \o c)
              ELSE IF c = <<>> THEN a \o <<Slash>> \o b
              ELSE a \o <<Slash>> \o b \o <<Slash>> \o c)

\* String.prototype.replace(/\\/g, "/")
replaceBackslashes(s) == [k \in 1..Len(s) |-> IF s[k] = "\\" THEN Slash ELSE s[k]]

(***************************************************************************)
(* The module's constants                                                  *)
(***************************************************************************)
\* /^\.(json|mjs|js|jsx|ts|tsx)$/
scriptExtensions == {<<Dot, w>> : w \in {"json", "mjs", "js", "jsx", "ts", "tsx"}}

\* the keys of styleParser and the parser each selects ("null": none,
\* plain CSS)
styleParser ==
    (<<Dot, "pcss">> :> "null") @@ (<<Dot, "css">> :> "null")
    @@ (<<Dot, "sss">> :> "postcssSugarSS")
    @@ (<<Dot, "scss">> :> "postcssScss")
    @@ (<<Dot, "sass">> :> "postcssSass")

\* `wrappers`, `assets` and `files` are object literals: a property read
\* also finds what Object.prototype defines
ObjectPrototypeKeys == {<<"constructor">>, <<"toString">>, <<"valueOf">>}

\* what such an inherited property prints as in a template string
NativeFunction(key) ==
    <<"function ", IF key = <<"constructor">> THEN "Object" ELSE key[1],
      "() { [native code] }">>

\* obj[key] != null
IsSet(obj, key) == key \in DOMAIN obj \/ key \in ObjectPrototypeKeys

\* the empty object literal
EmptyObject == <<>>

(***************************************************************************)
(* The files of the project and what the host asks about                   *)
(***************************************************************************)
File(dir, name, ext) == dir \o <<Slash, name, Dot, ext>>

ProjDir == <<Slash, "p">>
LibDir == <<Slash, "p", Slash, "lib">>

IndexJs == File(ProjDir, "index", "js")
LibModJs == File(LibDir, "mod", "js")
PLogo == File(ProjDir, "logo", "png")
LibLogo == File(LibDir, "logo", "png")
StyleSss == File(ProjDir, "style", "sss")
MainScss == File(ProjDir, "main", "scss")

\* the assets on disk (the scripts are there too, and never looked at)
SourceFiles == {PLogo, LibLogo, StyleSss, MainScss}

\* a build's view of the disk: each asset's bytes
DiskOf(pLogo, libLogo) ==
    (PLogo :> pLogo) @@ (LibLogo :> libLogo) @@ (StyleSss :> "c3")
    @@ (MainScss :> "c4")

Contents == {"c1", "c2", "c3", "c4"}

\* asset-hash's getHash over a file's bytes: a short digest, taken to be
\* free of collisions on the contents of the model
Digest == ("c1" :> "h1") @@ ("c2" :> "h2") @@ ("c3" :> "h3") @@ ("c4" :> "h4")
getHash(content) == <<Digest[content]>>

\* the entry points the host resolves with no importer, relative to Cwd
Entries == {<<"index", Dot, "js">>, <<"lib", Slash, "main", Dot, "js">>}

\* createFilter(include, exclude), the patterns being absolute paths
createFilter(include, exclude, id) ==
    IF id \in exclude THEN FALSE
    ELSE IF id \in include THEN TRUE
    ELSE include = {}

\* rebase(options): the naming policies, each with and without a filter
NamingOptions ==
    [skipHash : BOOLEAN, keepName : BOOLEAN, assetFolder : {<<>>, <<"static">>}]

FilterOptions ==
    { [include |-> {}, exclude |-> {}, verbose |-> FALSE],
      [include |-> {PLogo, LibLogo, StyleSss}, exclude |-> {LibLogo},
       verbose |-> TRUE] }

Options ==
    { [skipHash |-> n.skipHash, keepName |-> n.keepName,
       assetFolder |-> n.assetFolder, include |-> f.include,
       exclude |-> f.exclude, verbose |-> f.verbose]
      : n \in NamingOptions, f \in FilterOptions }

\* the defaults of rebase(options = {})
DefaultOptions ==
    [skipHash |-> FALSE, keepName |-> FALSE, assetFolder |-> <<>>,
     include |-> {}, exclude |-> {}, verbose |-> FALSE]

\* the plugin instances: one per build
Plugins == {"b1", "b2"}

\* resolveId calls in flight at once, per instance
MaxInFlight == 2
Slots == 1..MaxInFlight

\* resolveId calls per instance
MaxResolve == 4

(***************************************************************************)
(* State                                                                   *)
(***************************************************************************)
VARIABLES
    options,    \* per instance: the options rebase() was called with
    disk,       \* per instance: the bytes of each asset during its build
    root,       \* per instance: `root`
    files,      \* per instance: `files`, source path -> output-relative path
    assets,     \* per instance: `assets`, asset id -> true
    wrappers,   \* per instance: `wrappers`, wrapper id -> asset id
    calls,      \* per instance: the resolveId calls in flight
    nResolve,   \* per instance: resolveId calls made so far
    last,       \* the hook call that returned last, and what it returned
    handled,    \* per instance: the references resolveId answered with an id
    hashes,     \* per instance: the bag of getHash calls made, by source path
    bundle,     \* per instance: the generateBundle call
    tasks,      \* per instance: generateBundle's operation on each asset
    outfs,      \* per instance: the output files, path -> what was written
    writes      \* per instance: the bag of writes made, by asset and path

registries == <<root, files, assets, wrappers>>
resolving == <<calls, nResolve, handled, hashes>>
emitting == <<bundle, tasks, outfs, writes>>
vars == <<options, disk, registries, resolving, last, emitting>>

Idle ==
    [pc |-> "idle", n |-> 0, importee |-> <<>>, importer |-> <<>>,
     fileExt |-> <<>>, fileSource |-> <<>>, fileName |-> <<>>]

\* what a hook returns
NullResult == [kind |-> "null", value |-> <<>>]
FalseResult == [kind |-> "false", value |-> <<>>]
IdResult(id) == [kind |-> "id", value |-> id]
TextResult(text) == [kind |-> "text", value |-> text]
Thrown(error) == [kind |-> "throw", value |-> error]

NoCall ==
    [plugin |-> "none", hook |-> "none", importee |-> <<>>, importer |-> <<>>,
     result |-> NullResult]

\* generateBundle not called yet
NotCalled ==
    [phase |-> "idle", output |-> [file |-> <<>>, dir |-> <<>>],
     outputFolder |-> <<>>, result |-> NullResult]

\* the lowest free slot of instance b, 0 when all are taken
FreeSlot(b) ==
    LET free == {s \in Slots : calls[b][s].pc = "idle"}
    IN  IF free = {} THEN 0 ELSE CHOOSE s \in free : \A t \in free : s <= t

\* rebase(options): empty registries, no root
rebase(o, d) ==
    /\ options = o
    /\ disk = d
    /\ root = [b \in Plugins |-> Null]
    /\ files = [b \in Plugins |-> EmptyObject]
    /\ assets = [b \in Plugins |-> EmptyObject]
    /\ wrappers = [b \in Plugins |-> EmptyObject]
    /\ calls = [b \in Plugins |-> [s \in Slots |-> Idle]]
    /\ nResolve = [b \in Plugins |-> 0]
    /\ last = NoCall
    /\ handled = [b \in Plugins |-> {}]
    /\ hashes = [b \in Plugins |-> EmptyBag]
    /\ bundle = [b \in Plugins |-> NotCalled]
    /\ tasks = [b \in Plugins |-> <<>>]
    /\ outfs = [b \in Plugins |-> <<>>]
    /\ writes = [b \in Plugins |-> EmptyBag]

(***************************************************************************)
(* resolveId(importee, importer)                                           *)
(***************************************************************************)
filter(b, id) == createFilter(options[b].include, options[b].exclude, id)

\* the extension the target is named with: ".sss" becomes ".pcss"
TargetExt(ext) == IF ext = <<Dot, "sss">> THEN <<Dot, "pcss">> ELSE ext

\* const fileName = path.basename(importee, fileExt)
FileName(importee, fileExt) == basename(importee, fileExt)

\* fileTarget with skipHash
PlainTarget(fileName, fileExt) == fileName \o fileExt

\* a slip of the naming: the hash is left out
HashedTarget_NoHash(keepName, fileName, fileHash, fileExt) == fileName \o fileExt

\* fileTarget with a hash: name~hash.ext with keepName, else hash.ext
HashedTarget(keepName, fileName, fileHash, fileExt) ==
    IF keepName THEN fileName \o <<"~">> \o fileHash \o fileExt
    ELSE fileHash \o fileExt

\* files[fileSource]
OutputPath(assetFolder, fileTarget) == join2(assetFolder, fileTarget)

\* assetId; path.join throws a TypeError for the null root, so only for a
\* root that is set
AssetId(rootDir, assetFolder, fileTarget) ==
    replaceBackslashes(join3(rootDir, assetFolder, fileTarget))

\* a slip of the suffix: the asset id itself
WrapperId_NoSuffix(assetId) == assetId

\* resolvedId
WrapperId(assetId) == assetId \o <<Dot, "js">>

\* a call of slot s returns (or throws) result
Returns(b, s, importee, importer, result) ==
    /\ calls' = [calls EXCEPT ![b][s] = Idle]
    /\ last' = [plugin |-> b, hook |-> "resolveId", importee |-> importee,
                importer |-> importer, result |-> result]

\* a slip of the scope: `files` declared once for the module, so that
\* every instance writes the same object
Register_Shared(b, s, fileTarget) ==
    LET c == calls[b][s]
        dest == OutputPath(options[b].assetFolder, fileTarget)
        assetId == AssetId(root[b], options[b].assetFolder, fileTarget)
        resolvedId == WrapperId(assetId)
    IN  /\ files' = [p \in Plugins |-> (c.fileSource :> dest) @@ files[p]]
        /\ IF root[b] = Null
           THEN /\ Returns(b, s, c.importee, c.importer, Thrown(<<"TypeError">>))
                /\ UNCHANGED <<assets, wrappers, handled>>
           ELSE /\ assets' = [assets EXCEPT ![b] = (assetId :> TRUE) @@ @]
                /\ wrappers' = [wrappers EXCEPT ![b] = (resolvedId :> assetId) @@ @]
                /\ handled' = [handled EXCEPT ![b] = @ \cup
                       {[fileSource |-> c.fileSource, importer |-> c.importer,
                         id |-> resolvedId, dest |-> dest, n |-> c.n,
                         with |-> {calls[b][t].n : t \in
                                      {u \in Slots \ {s} :
                                          calls[b][u].pc # "idle"}}]}]
                /\ Returns(b, s, c.importee, c.importer, IdResult(resolvedId))
        /\ UNCHANGED <<options, disk, root, nResolve, hashes, emitting>>

\* from `files[fileSource] = ...` to `return resolvedId`, which nothing
\* suspends
Register(b, s, fileTarget) ==
    LET c == calls[b][s]
        dest == OutputPath(options[b].assetFolder, fileTarget)
        assetId == AssetId(root[b], options[b].assetFolder, fileTarget)
        resolvedId == WrapperId(assetId)
    IN  /\ files' = [files EXCEPT ![b] = (c.fileSource :> dest) @@ @]
        /\ IF root[b] = Null
           THEN /\ Returns(b, s, c.importee, c.importer, Thrown(<<"TypeError">>))
                /\ UNCHANGED <<assets, wrappers, handled>>
           ELSE /\ assets' = [assets EXCEPT ![b] = (assetId :> TRUE) @@ @]
                /\ wrappers' = [wrappers EXCEPT ![b] = (resolvedId :> assetId) @@ @]
                /\ handled' = [handled EXCEPT ![b] = @ \cup
                       {[fileSource |-> c.fileSource, importer |-> c.importer,
                         id |-> resolvedId, dest |-> dest, n |-> c.n,
                         with |-> {calls[b][t].n : t \in
                                      {u \in Slots \ {s} :
                                          calls[b][u].pc # "idle"}}]}]
                /\ Returns(b, s, c.importee, c.importer, IdResult(resolvedId))
        /\ UNCHANGED <<options, disk, root, nResolve, hashes, emitting>>

\* a slip of the registry: the check reads wrappers
IsRebaseAsset_Wrappers(b, importee) == IsSet(wrappers[b], importee)

\* assets[importee] != null
IsRebaseAsset(b, importee) == IsSet(assets[b], importee)

\* the call, up to `await fs.pathExists(fileSource)`
ResolveId(b, importee, importer) ==
    LET s == FreeSlot(b)
        ext == extname(importee)
        fileExt == TargetExt(ext)
        fileSource == resolve2(dirname(importer), importee)
    IN  /\ s # 0
        /\ nResolve' = [nResolve EXCEPT ![b] = @ + 1]
        /\ IF importer = Null
           THEN /\ root' = [root EXCEPT ![b] = dirname(resolve1(importee))]
                /\ Returns(b, s, importee, importer, NullResult)
           ELSE /\ UNCHANGED root
                /\ IF IsRebaseAsset(b, importee)
                   THEN Returns(b, s, importee, importer, FalseResult)
                   ELSE IF ext = <<>> \/ ext \in scriptExtensions
                   THEN Returns(b, s, importee, importer, NullResult)
                   ELSE IF ~filter(b, fileSource)
                   THEN Returns(b, s, importee, importer, NullResult)
                   ELSE /\ calls' = [calls EXCEPT ![b][s] =
                               [pc |-> "pathExists", n |-> nResolve[b] + 1,
                                importee |-> importee,
                                importer |-> importer, fileExt |-> fileExt,
                                fileSource |-> fileSource, fileName |-> <<>>]]
                        /\ UNCHANGED last
        /\ UNCHANGED <<options, disk, files, assets, wrappers, handled, hashes,
                       emitting>>

\* fs.pathExists answers: from there to `await getHash(fileSource)`, or
\* with skipHash to the end
PathExists(b, s) ==
    LET c == calls[b][s]
        fileName == FileName(c.importee, c.fileExt)
    IN  /\ c.pc = "pathExists"
        /\ IF c.fileSource \notin DOMAIN disk[b]
           THEN /\ Returns(b, s, c.importee, c.importer, NullResult)
                /\ UNCHANGED <<options, disk, registries, nResolve, handled,
                               hashes, emitting>>
           ELSE IF options[b].skipHash
           THEN Register(b, s, PlainTarget(fileName, c.fileExt))
           ELSE /\ calls' = [calls EXCEPT ![b][s] =
                       [c EXCEPT !.pc = "getHash", !.fileName = fileName]]
                /\ hashes' = [hashes EXCEPT ![b] =
                       @ (+) SetToBag({c.fileSource})]
                /\ UNCHANGED <<options, disk, registries, nResolve, last,
                               handled, emitting>>

\* getHash answers: from there to the end
GetHash(b, s) ==
    LET c == calls[b][s]
        fileHash == getHash(disk[b][c.fileSource])
    IN  /\ c.pc = "getHash"
        /\ Register(b, s, HashedTarget(options[b].keepName, c.fileName,
                                       fileHash, c.fileExt))

(***************************************************************************)
(* load(id)                                                                *)
(***************************************************************************)
\* wrappers[id], as the template string prints it
WrapperTarget(b, id) ==
    IF id \in DOMAIN wrappers[b] THEN wrappers[b][id]
    ELSE NativeFunction(id)

ExportFrom(importee) == <<"export { default } from \"">> \o importee \o <<"\";">>

loadResult(b, id) ==
    IF IsSet(wrappers[b], id)
    THEN TextResult(ExportFrom(WrapperTarget(b, id)))
    ELSE NullResult

\* a slip of the generator: a wrapper is handed out once and forgotten
load_Consuming(b, id) ==
    /\ last' = [plugin |-> b, hook |-> "load", importee |-> id,
                importer |-> <<>>, result |-> loadResult(b, id)]
    /\ wrappers' = [wrappers EXCEPT ![b] =
           [w \in DOMAIN wrappers[b] \ {id} |-> wrappers[b][w]]]
    /\ UNCHANGED <<options, disk, root, files, assets, resolving, emitting>>

load(b, id) ==
    /\ last' = [plugin |-> b, hook |-> "load", importee |-> id,
                importer |-> <<>>, result |-> loadResult(b, id)]
    /\ UNCHANGED <<options, disk, registries, resolving, emitting>>

(***************************************************************************)
(* generateBundle({ file, dir }) and processStyle                          *)
(***************************************************************************)
\* the output options the host passes: a file or a directory
OutputOptions ==
    { [file |-> <<"output", Slash, "index", Dot, "js">>, dir |-> Null],
      [file |-> Null, dir |-> <<"dist">>] }

\* a slip of the fallback: the directory only
OutputFolder_Dir(out) == out.dir

\* const outputFolder = dir || path.dirname(file)
OutputFolder(out) == IF out.dir # Null THEN out.dir ELSE dirname(out.file)

\* const fileDest = path.join(outputFolder, files[fileSource])
FileDest(outputFolder, outputPath) == join2(outputFolder, outputPath)

\* a slip of the table: no entry for ".sss"
IsStyle_NoSugar(fileSource) ==
    extname(fileSource) \in DOMAIN styleParser \ {<<Dot, "sss">>}

\* fileExt in styleParser
IsStyle(fileSource) == extname(fileSource) \in DOMAIN styleParser

\* what the operations write
Bytes(content) == <<content>>
Css(parser, content) == <<"css", parser, content>>
SourceMap(parser, content) == <<"map", parser, content>>

\* throw new Error(`Error while copying files: ${error}`)
CopyError(error) == <<"Error while copying files: ">> \o error

\* an asset's operation as the call leaves it: at its first await, or
\* rejected by rootRelative's path.relative(null, ...) when verbose
StartTask(b, outputFolder, fileSource) ==
    LET style == IsStyle(fileSource)
        logs == options[b].verbose
    IN  [ fileDest |-> FileDest(outputFolder, files[b][fileSource]),
          stage |-> IF style THEN "process" ELSE "copy",
          parser |-> IF style THEN styleParser[extname(fileSource)] ELSE "none",
          pc |-> IF logs /\ root[b] = Null THEN "stopped"
                 ELSE IF style THEN "readFile" ELSE "copy",
          css |-> "none", map |-> "none",
          promise |-> IF logs /\ root[b] = Null THEN "rejected" ELSE "pending",
          error |-> IF logs /\ root[b] = Null THEN <<"TypeError">> ELSE <<>> ]

\* an operation still has I/O or a transform under way
InProgress(t) ==
    \/ t.pc \in {"readFile", "process", "copy"}
    \/ t.css = "pending"
    \/ t.map = "pending"

\* a slip of the combinator: Promise.allSettled waits for every operation
\* and never rejects
Settle_AllSettled(b, ts, f) ==
    IF bundle[b].phase # "running" THEN bundle[b]
    ELSE IF \A g \in DOMAIN ts : ts[g].promise # "pending"
    THEN [bundle[b] EXCEPT !.phase = "returned"]
    ELSE bundle[b]

\* Promise.all over the operations: rejected with the first rejection,
\* fulfilled when all are; ts is the operations after the step, f the one
\* that stepped
Settle(b, ts, f) ==
    IF bundle[b].phase # "running" THEN bundle[b]
    ELSE IF ts[f].promise = "rejected"
    THEN [bundle[b] EXCEPT !.phase = "threw",
                           !.result = Thrown(CopyError(ts[f].error))]
    ELSE IF \A g \in DOMAIN ts : ts[g].promise = "fulfilled"
    THEN [bundle[b] EXCEPT !.phase = "returned"]
    ELSE bundle[b]

\* an operation of the running call steps to t
TaskStep(b, f, t) ==
    LET ts == [tasks[b] EXCEPT ![f] = t]
        after == Settle(b, ts, f)
    IN  /\ tasks' = [tasks EXCEPT ![b] = ts]
        /\ bundle' = [bundle EXCEPT ![b] = after]
        /\ last' = IF after.phase # bundle[b].phase
                   THEN [plugin |-> b, hook |-> "generateBundle",
                         importee |-> <<>>, importer |-> <<>>,
                         result |-> after.result]
                   ELSE last
        /\ UNCHANGED <<options, disk, registries, resolving>>

Rejected(t, error) ==
    [t EXCEPT !.pc = "stopped",
              !.promise = IF @ = "pending" THEN "rejected" ELSE @,
              !.error = IF t.promise = "pending" THEN error ELSE @]

\* the call: every asset's operation starts, in the order of Object.keys
generateBundle(b, out) ==
    LET outputFolder == OutputFolder(out)
        ts == [f \in DOMAIN files[b] |-> StartTask(b, outputFolder, f)]
        failed == {f \in DOMAIN ts : ts[f].promise = "rejected"}
        result == IF failed # {}
                  THEN Thrown(CopyError(<<"TypeError">>))
                  ELSE NullResult
        phase == IF failed # {} THEN "threw"
                 ELSE IF DOMAIN ts = {} THEN "returned" ELSE "running"
    IN  /\ bundle[b].phase = "idle"
        /\ \A s \in Slots : calls[b][s].pc = "idle"
        /\ tasks' = [tasks EXCEPT ![b] = ts]
        /\ bundle' = [bundle EXCEPT ![b] =
               [phase |-> phase, output |-> out,
                outputFolder |-> outputFolder, result |-> result]]
        /\ last' = IF phase = "running" THEN last
                   ELSE [plugin |-> b, hook |-> "generateBundle",
                         importee |-> <<>>, importer |-> <<>>, result |-> result]
        /\ UNCHANGED <<options, disk, registries, resolving, outfs, writes>>

\* processStyle: fs.readFile(id) answers
ReadFile(b, f, ok) ==
    LET t == tasks[b][f]
    IN  /\ f \in DOMAIN tasks[b]
        /\ t.pc = "readFile"
        /\ TaskStep(b, f, IF ok THEN [t EXCEPT !.pc = "process"]
                           ELSE Rejected(t, <<"ENOENT">>))
        /\ UNCHANGED <<outfs, writes>>

\* processStyle: processor.process answers, and both outputFile calls start
Process(b, f, ok) ==
    LET t == tasks[b][f]
    IN  /\ f \in DOMAIN tasks[b]
        /\ t.pc = "process"
        /\ TaskStep(b, f, IF ok THEN [t EXCEPT !.pc = "outputFile",
                                               !.css = "pending",
                                               !.map = "pending"]
                           ELSE Rejected(t, <<"CssSyntaxError">>))
        /\ UNCHANGED <<outfs, writes>>

Written(b, f, path, data) ==
    /\ outfs' = [outfs EXCEPT ![b] = (path :> data) @@ @]
    /\ writes' = [writes EXCEPT ![b] =
           @ (+) SetToBag({[fileSource |-> f, path |-> path]})]

\* processStyle: fs.outputFile(fileDest, result.css) answers
OutputCss(b, f, ok) ==
    LET t == tasks[b][f]
        wrote == [t EXCEPT !.css = "written",
                           !.pc = IF t.map = "pending" THEN @ ELSE "stopped",
                           !.promise = IF t.map = "written" THEN "fulfilled"
                                       ELSE @]
    IN  /\ f \in DOMAIN tasks[b]
        /\ t.css = "pending"
        /\ IF ok
           THEN /\ TaskStep(b, f, wrote)
                /\ Written(b, f, t.fileDest, Css(t.parser, disk[b][f]))
           ELSE /\ TaskStep(b, f, [Rejected(t, <<"EACCES">>) EXCEPT
                                      !.css = "failed",
                                      !.pc = IF t.map = "pending"
                                             THEN t.pc ELSE "stopped"])
                /\ UNCHANGED <<outfs, writes>>

\* processStyle: fs.outputFile(`${fileDest}.map`, ...) answers
OutputMap(b, f, ok) ==
    LET t == tasks[b][f]
        wrote == [t EXCEPT !.map = "written",
                           !.pc = IF t.css = "pending" THEN @ ELSE "stopped",
                           !.promise = IF t.css = "written" THEN "fulfilled"
                                       ELSE @]
    IN  /\ f \in DOMAIN tasks[b]
        /\ t.map = "pending"
        /\ IF ok
           THEN /\ TaskStep(b, f, wrote)
                /\ Written(b, f, t.fileDest \o <<Dot, "map">>,
                           SourceMap(t.parser, disk[b][f]))
           ELSE /\ TaskStep(b, f, [Rejected(t, <<"EACCES">>) EXCEPT
                                      !.map = "failed",
                                      !.pc = IF t.css = "pending"
                                             THEN t.pc ELSE "stopped"])
                /\ UNCHANGED <<outfs, writes>>

\* fs.copy(fileSource, fileDest) answers
Copy(b, f, ok) ==
    LET t == tasks[b][f]
    IN  /\ f \in DOMAIN tasks[b]
        /\ t.pc = "copy"
        /\ IF ok
           THEN /\ TaskStep(b, f, [t EXCEPT !.pc = "stopped",
                                            !.promise = "fulfilled"])
                /\ Written(b, f, t.fileDest, Bytes(disk[b][f]))
           ELSE /\ TaskStep(b, f, Rejected(t, <<"ENOENT">>))
                /\ UNCHANGED <<outfs, writes>>

(***************************************************************************)
(* The host: what it calls, and when                                       *)
(***************************************************************************)
\* a reference: what is imported, and by which module
Ref(importee, importer) == [importee |-> importee, importer |-> importer]

\* the references of the project's modules
References ==
    { Ref(<<Dot, Slash, "logo", Dot, "png">>, IndexJs),
      Ref(<<Dot, Slash, "logo", Dot, "png">>, LibModJs),
      Ref(<<Dot, Dot, Slash, "logo", Dot, "png">>, LibModJs),
      Ref(<<Dot, Slash, "style", Dot, "sss">>, IndexJs),
      Ref(<<Dot, Slash, "main", Dot, "scss">>, IndexJs),
      Ref(<<Dot, Slash, "main", Dot, "scss">>, LibModJs),
      Ref(<<Dot, Slash, "util", Dot, "js">>, IndexJs),
      Ref(<<Dot, Slash, "README">>, IndexJs),
      Ref(<<Dot, Slash, "es", Dot, "array", Dot, "reduce">>, IndexJs),
      Ref(<<"constructor">>, IndexJs) }

\* the references of the wrapper modules load() has generated: each
\* imports its asset id
WrapperReferences(b) == {Ref(wrappers[b][w], w) : w \in DOMAIN wrappers[b]}

\* the ids the host may ask load for
LoadIds(b) ==
    DOMAIN wrappers[b] \cup DOMAIN assets[b] \cup {IndexJs, <<"constructor">>}

\* no resolveId call of b is in flight
Quiet(b) == \A s \in Slots : calls[b][s].pc = "idle"

\* the host resolves an entry (any id may be made one) or a reference
Resolve(b, entries, refs) ==
    \/ \E e \in entries \cup DOMAIN assets[b] : ResolveId(b, e, Null)
    \/ \E r \in refs \cup WrapperReferences(b) :
           ResolveId(b, r.importee, r.importer)

Resume(b) ==
    \/ \E s \in Slots : PathExists(b, s)
    \/ \E s \in Slots : GetHash(b, s)

Load(b) == \E id \in LoadIds(b) : load(b, id)

Emit(b) ==
    \/ \E f \in SourceFiles, ok \in BOOLEAN : ReadFile(b, f, ok)
    \/ \E f \in SourceFiles, ok \in BOOLEAN : Process(b, f, ok)
    \/ \E f \in SourceFiles, ok \in BOOLEAN : OutputCss(b, f, ok)
    \/ \E f \in SourceFiles, ok \in BOOLEAN : OutputMap(b, f, ok)
    \/ \E f \in SourceFiles, ok \in BOOLEAN : Copy(b, f, ok)

\* instance "b1" made with options o over disk d, "b2" with the defaults
One(o, d) ==
    rebase([b \in Plugins |-> IF b = "b1" THEN o ELSE DefaultOptions],
           [b \in Plugins |-> IF b = "b1" THEN d ELSE DiskOf("c1", "c1")])

(***************************************************************************)
(* Spec: the build phase of one instance under every option, the calls     *)
(* one after another                                                       *)
(***************************************************************************)
Init == \E o \in Options : One(o, DiskOf("c1", "c2"))

Next ==
    \/ /\ Quiet("b1")
       /\ nResolve["b1"] < MaxResolve
       /\ Resolve("b1", Entries, References)
    \/ Resume("b1")
    \/ Load("b1")

Spec == Init /\ [][Next]_vars

(***************************************************************************)
(* SpecEmit: a build of one instance and its generateBundle call, under    *)
(* every naming policy, the assets' operations interleaved.  The host      *)
(* calls generateBundle once, when the module graph is resolved.           *)
(***************************************************************************)
\* resolveId calls before generateBundle
MaxEmitResolve == 3

EmitReferences ==
    { Ref(<<Dot, Slash, "logo", Dot, "png">>, IndexJs),
      Ref(<<Dot, Dot, Slash, "logo", Dot, "png">>, LibModJs),
      Ref(<<Dot, Slash, "style", Dot, "sss">>, IndexJs),
      Ref(<<Dot, Slash, "main", Dot, "scss">>, IndexJs) }

\* every naming policy, and the defaults with verbose
EmitOptions ==
    { [skipHash |-> n.skipHash, keepName |-> n.keepName,
       assetFolder |-> n.assetFolder, include |-> {}, exclude |-> {},
       verbose |-> FALSE] : n \in NamingOptions }
    \cup {[DefaultOptions EXCEPT !.verbose = TRUE]}

InitEmit == \E o \in EmitOptions : One(o, DiskOf("c1", "c2"))

NextEmit ==
    \/ /\ Quiet("b1")
       /\ bundle["b1"].phase = "idle"
       /\ nResolve["b1"] < MaxEmitResolve
       /\ \/ ResolveId("b1", <<"index", Dot, "js">>, Null)
          \/ \E r \in EmitReferences : ResolveId("b1", r.importee, r.importer)
    \/ Resume("b1")
    \/ \E out \in OutputOptions : generateBundle("b1", out)
    \/ Emit("b1")

SpecEmit == InitEmit /\ [][NextEmit]_vars

(***************************************************************************)
(* SpecBuilds: two builds, each with its own instance made with the same   *)
(* options; the logo's bytes may have changed between the builds.  Each    *)
(* build resolves its entry first, as the host does.                       *)
(***************************************************************************)
\* resolveId calls per build
MaxBuildResolve == 3

BuildReferences ==
    { Ref(<<Dot, Slash, "logo", Dot, "png">>, IndexJs),
      Ref(<<Dot, Slash, "main", Dot, "scss">>, IndexJs) }

InitBuilds ==
    \E skip \in BOOLEAN, keep \in BOOLEAN, c \in {"c1", "c2"} :
        rebase([b \in Plugins |->
                   [skipHash |-> skip, keepName |-> keep,
                    assetFolder |-> <<"static">>, include |-> {},
                    exclude |-> {}, verbose |-> FALSE]],
               [b \in Plugins |-> DiskOf(IF b = "b1" THEN "c1" ELSE c, "c2")])

NextBuilds ==
    \E b \in Plugins :
        \/ /\ Quiet(b)
           /\ nResolve[b] < MaxBuildResolve
           /\ \/ /\ root[b] = Null
                 /\ ResolveId(b, <<"index", Dot, "js">>, Null)
              \/ /\ root[b] # Null
                 /\ \E r \in BuildReferences :
                        ResolveId(b, r.importee, r.importer)
        \/ Resume(b)

SpecBuilds == InitBuilds /\ [][NextBuilds]_vars

(***************************************************************************)
(* SpecRace: the build phase of one instance with resolveId calls in       *)
(* flight at once, interleaved at their awaits; file contents are fixed    *)
(***************************************************************************)
\* resolveId calls per build
MaxRaceResolve == 4

RaceReferences ==
    { Ref(<<Dot, Slash, "logo", Dot, "png">>, IndexJs),
      Ref(<<Dot, Dot, Slash, "logo", Dot, "png">>, LibModJs),
      Ref(<<Dot, Slash, "main", Dot, "scss">>, IndexJs) }

InitRace ==
    \E skip \in BOOLEAN :
        One([DefaultOptions EXCEPT !.skipHash = skip], DiskOf("c1", "c2"))

NextRace ==
    \/ /\ nResolve["b1"] < MaxRaceResolve
       /\ Resolve("b1", Entries, RaceReferences)
    \/ Resume("b1")

SpecRace == InitRace /\ [][NextRace]_vars

(***************************************************************************)
(* SpecHooks: two instances side by side, each with its own options, and   *)
(* every hook: the builds resolve and load, and the first goes on to       *)
(* generateBundle                                                          *)
(***************************************************************************)
\* resolveId calls per instance
MaxHooksResolve == 3

HooksReferences ==
    { Ref(<<Dot, Slash, "logo", Dot, "png">>, IndexJs),
      Ref(<<Dot, Slash, "main", Dot, "scss">>, IndexJs) }

InitHooks ==
    rebase([b \in Plugins |->
               IF b = "b1"
               THEN [DefaultOptions EXCEPT !.skipHash = TRUE,
                                           !.assetFolder = <<"static">>]
               ELSE DefaultOptions],
           [b \in Plugins |-> DiskOf("c1", "c2")])

NextHooks ==
    \/ \E b \in Plugins :
           /\ Quiet(b)
           /\ bundle[b].phase = "idle"
           /\ nResolve[b] < MaxHooksResolve
           /\ \/ /\ root[b] = Null
                 /\ ResolveId(b, <<"index", Dot, "js">>, Null)
              \/ /\ root[b] # Null
                 /\ \E r \in HooksReferences :
                        ResolveId(b, r.importee, r.importer)
    \/ \E b \in Plugins : Resume(b)
    \/ \E b \in Plugins : bundle[b].phase = "idle" /\ Load(b)
    \/ \E out \in OutputOptions : generateBundle("b1", out)
    \/ Emit("b1")

SpecHooks == InitHooks /\ [][NextHooks]_vars

(***************************************************************************)
(* The claims                                                              *)
(***************************************************************************)
\* a step starts a resolveId call of instance b
CallStarts(b) == nResolve'[b] = nResolve[b] + 1

\* the arguments of the call the step starts: those of the call that
\* returned at once, or of the slot it has taken
StartedCall(b) ==
    IF calls'[b] = calls[b]
    THEN Ref(last'.importee, last'.importer)
    ELSE LET s == CHOOSE s \in Slots : calls'[b][s] # calls[b][s]
         IN  Ref(calls'[b][s].importee, calls'[b][s].importer)

\* the call the step starts returns result within the step
ReturnsAtOnce(b, result) ==
    /\ calls'[b] = calls[b]
    /\ last'.plugin = b
    /\ last'.hook = "resolveId"
    /\ last'.result = result

\* the step leaves the three registries of b as they are
RegistriesKept(b) ==
    /\ files'[b] = files[b]
    /\ assets'[b] = assets[b]
    /\ wrappers'[b] = wrappers[b]

\* C1 as stated: every resolveId call for an id that is registered when the
\* call is made returns false and leaves the registries as they are
C1_Original ==
    [][\A b \in Plugins :
          (CallStarts(b) /\ StartedCall(b).importee \in DOMAIN assets[b])
          => (ReturnsAtOnce(b, FalseResult) /\ RegistriesKept(b))]_vars

\* C1, amended: a resolveId call for an id that is registered when the call
\* is made returns false when it has an importer and null when it has none;
\* either way it returns at once, never an id, and leaves files, assets and
\* wrappers as they are
C1_CycleBreaking ==
    [][\A b \in Plugins :
          (CallStarts(b) /\ StartedCall(b).importee \in DOMAIN assets[b])
          => /\ RegistriesKept(b)
             /\ IF StartedCall(b).importer # Null
                THEN ReturnsAtOnce(b, FalseResult)
                ELSE ReturnsAtOnce(b, NullResult)]_vars

\* C1's case: the wrapper module's import of its asset id was answered false
C1_Witness ==
    /\ last.hook = "resolveId"
    /\ last.importer \in DOMAIN wrappers[last.plugin]
    /\ last.importee = wrappers[last.plugin][last.importer]
    /\ last.result = FalseResult

\* the writes generateBundle made of asset f's output file
WritesOf(b, f, path) ==
    LET w == [fileSource |-> f, path |-> path]
    IN  IF w \in DOMAIN writes[b] THEN writes[b][w] ELSE 0

\* C2 as stated: two references to one source path from different importers
\* are answered with the same output path and the same wrapper id, that
\* output path is the one record files holds for the source, and a
\* generateBundle call that returns has written the asset once
C2_Original ==
    \A b \in Plugins :
        /\ \A h1 \in handled[b], h2 \in handled[b] :
               (h1.fileSource = h2.fileSource /\ h1.importer # h2.importer)
               => /\ h1.dest = h2.dest
                  /\ h1.id = h2.id
                  /\ files[b][h1.fileSource] = h1.dest
        /\ bundle[b].phase = "returned"
           => \A f \in DOMAIN files[b] :
                  WritesOf(b, f, FileDest(bundle[b].outputFolder, files[b][f])) = 1

\* what of C2 holds: the same output path both times, one record, one write
C2_SameDestination ==
    \A b \in Plugins :
        /\ \A h1 \in handled[b], h2 \in handled[b] :
               h1.fileSource = h2.fileSource
               => /\ h1.dest = h2.dest
                  /\ files[b][h1.fileSource] = h1.dest
        /\ bundle[b].phase = "returned"
           => \A f \in DOMAIN files[b] :
                  WritesOf(b, f, FileDest(bundle[b].outputFolder, files[b][f])) = 1

\* the name the naming policy of C3 gives source f under options o: base
\* is the file's name without its extension, ext the effective extension
PolicyName(o, f, content) ==
    LET base == basename(f, extname(f))
        ext == TargetExt(extname(f))
    IN  IF o.skipHash THEN base \o ext
        ELSE IF o.keepName THEN base \o <<"~">> \o getHash(content) \o ext
        ELSE getHash(content) \o ext

\* C3 as stated: every reference answered with an id is registered under
\* assetFolder joined with the name its policy gives: base+ext with
\* skipHash, base~hash+ext with keepName, hash+ext otherwise
C3_Original ==
    \A b \in Plugins : \A h \in handled[b] :
        h.dest = join2(options[b].assetFolder,
                       PolicyName(options[b], h.fileSource,
                                  disk[b][h.fileSource]))

\* a lexeme sequence holds the extension ext
HoldsExt(s, ext) ==
    \E k \in 1..(Len(s) - 1) : s[k] = ext[1] /\ s[k + 1] = ext[2]

\* C4 as stated: a .sss asset is named, identified and emitted with .pcss,
\* .sss appears nowhere in its destination, and .sss selects the parser
C4_Original ==
    \A b \in Plugins : \A h \in handled[b] :
        extname(h.fileSource) = <<Dot, "sss">>
        => /\ extname(h.dest) = <<Dot, "pcss">>
           /\ ~HoldsExt(h.dest, <<Dot, "sss">>)
           /\ h.id = WrapperId(wrappers[b][h.id])
           /\ extname(wrappers[b][h.id]) = <<Dot, "pcss">>
           /\ h.fileSource \in DOMAIN tasks[b]
              => /\ extname(tasks[b][h.fileSource].fileDest) = <<Dot, "pcss">>
                 /\ tasks[b][h.fileSource].parser = "postcssSugarSS"

\* what of C4 holds: everything but the name before the extension
C4_Remapped ==
    \A b \in Plugins : \A h \in handled[b] :
        extname(h.fileSource) = <<Dot, "sss">>
        => /\ extname(h.dest) = <<Dot, "pcss">>
           /\ extname(wrappers[b][h.id]) = <<Dot, "pcss">>
           /\ h.fileSource \in DOMAIN tasks[b]
              => /\ extname(tasks[b][h.fileSource].fileDest) = <<Dot, "pcss">>
                 /\ tasks[b][h.fileSource].parser = "postcssSugarSS"

\* C5: with hashing enabled, two builds with the same options name an
\* asset alike when its bytes are the same in both, and differently when
\* they differ
C5_HashStability ==
    \A h1 \in handled["b1"], h2 \in handled["b2"] :
        (/\ options["b1"] = options["b2"]
         /\ ~options["b1"].skipHash
         /\ h1.fileSource = h2.fileSource)
        => (disk["b1"][h1.fileSource] = disk["b2"][h2.fileSource]
            <=> LastSegment(h1.dest) = LastSegment(h2.dest))

\* C5's case: both builds have named the logo, whose bytes differ between
\* them, and both have named the stylesheet, whose bytes do not
C5_Witness ==
    /\ ~options["b1"].skipHash
    /\ disk["b1"][PLogo] # disk["b2"][PLogo]
    /\ \A f \in {PLogo, MainScss} :
           /\ \E h \in handled["b1"] : h.fileSource = f
           /\ \E h \in handled["b2"] : h.fileSource = f

\* the extensions of the stylesheet dialects
StyleExtensions == {<<Dot, w>> : w \in {"css", "pcss", "sss", "scss", "sass"}}

\* C6: when generateBundle has returned, every asset with a stylesheet
\* extension was processed, not copied, and its destination holds the
\* transformed text and destination.map the source map, each written once;
\* every other asset was copied, its destination holds the source's bytes,
\* and no map was written for it
C6_DialectAwareEmission ==
    \A b \in Plugins :
        bundle[b].phase = "returned"
        => \A f \in DOMAIN files[b] :
               LET dest == FileDest(bundle[b].outputFolder, files[b][f])
                   map == dest \o <<Dot, "map">>
                   t == tasks[b][f]
               IN  IF extname(f) \in StyleExtensions
                   THEN /\ t.stage = "process"
                        /\ WritesOf(b, f, dest) = 1
                        /\ WritesOf(b, f, map) = 1
                        /\ outfs[b][dest] = Css(t.parser, disk[b][f])
                        /\ outfs[b][map] = SourceMap(t.parser, disk[b][f])
                   ELSE /\ t.stage = "copy"
                        /\ WritesOf(b, f, dest) = 1
                        /\ WritesOf(b, f, map) = 0
                        /\ outfs[b][dest] = Bytes(disk[b][f])

\* C6's case: generateBundle has returned with the logo and both
\* stylesheets registered
C6_Witness ==
    /\ bundle["b1"].phase = "returned"
    /\ DOMAIN files["b1"] = {PLogo, StyleSss, MainScss}

\* the step is a load call of instance b
LoadCalled(b) == last' # last /\ last'.hook = "load" /\ last'.plugin = b

\* every id resolveId has returned is a key of wrappers, load answers it
\* with the re-export of the asset id recorded for it, and that asset id is
\* registered
Loadable(b) ==
    \A h \in handled[b] :
        /\ h.id \in DOMAIN wrappers[b]
        /\ wrappers[b][h.id] \in DOMAIN assets[b]
        /\ loadResult(b, h.id) = TextResult(ExportFrom(wrappers[b][h.id]))

\* C7 as stated: load(id) returns the re-export of wrappers[id] when id is
\* a key of wrappers and null for every other id; and every id resolveId
\* has returned stays loadable and names a registered asset id
C7_Original ==
    [][\A b \in Plugins :
          /\ LoadCalled(b)
             => LET id == last'.importee
                IN  IF id \in DOMAIN wrappers[b]
                    THEN last'.result = TextResult(ExportFrom(wrappers[b][id]))
                    ELSE last'.result = NullResult
          /\ Loadable(b)']_vars

\* what of C7 holds: the same, for the ids that are no property name of
\* Object.prototype
C7_OwnKeys ==
    [][\A b \in Plugins :
          /\ (LoadCalled(b) /\ last'.importee \notin ObjectPrototypeKeys)
             => LET id == last'.importee
                IN  IF id \in DOMAIN wrappers[b]
                    THEN last'.result = TextResult(ExportFrom(wrappers[b][id]))
                    ELSE last'.result = NullResult
          /\ Loadable(b)']_vars

\* the operations of b the step rejects
NewlyRejected(b) ==
    {f \in DOMAIN tasks'[b] :
        /\ tasks'[b][f].promise = "rejected"
        /\ f \in DOMAIN tasks[b] => tasks[b][f].promise = "pending"}

\* the step makes generateBundle fail, with the failure of operation f
\* behind the text context
FailsWith(b, f, context) ==
    /\ bundle'[b].phase = "threw"
    /\ bundle'[b].result =
           [kind |-> "throw", value |-> context \o tasks'[b][f].error]

\* what was written stays as it was written
NoRollback(b) ==
    \A p \in DOMAIN outfs[b] :
        p \in DOMAIN outfs'[b] /\ outfs'[b][p] = outfs[b][p]

\* an operation that has settled stays settled, one that has stopped does
\* nothing more, and nothing is written twice
NoRetry(b) ==
    /\ \A f \in DOMAIN tasks[b] :
           /\ f \in DOMAIN tasks'[b]
           /\ tasks[b][f].promise # "pending"
              => tasks'[b][f].promise = tasks[b][f].promise
           /\ tasks[b][f].pc = "stopped" => tasks'[b][f] = tasks[b][f]
    /\ \A w \in DOMAIN writes'[b] : writes'[b][w] <= 1

\* the call fails once: its error never changes and it never returns
FailsOnce(b) ==
    /\ bundle[b].phase = "threw" => bundle'[b] = bundle[b]
    /\ (bundle'[b].phase = "threw" /\ bundle[b].phase # "threw")
       => NewlyRejected(b) # {}

\* C8 as stated: the first copy or transform to fail makes generateBundle
\* fail with
\* one error that wraps the operation's and tells the stage: the context
\* of a copy is given to the failure of a copy and to no failure of a
\* stylesheet's processing; what was written stays and nothing is retried
C8_Original ==
    [][\A b \in Plugins :
          /\ (NewlyRejected(b) # {} /\ bundle[b].phase = "running")
             => \E f \in NewlyRejected(b) :
                    /\ bundle'[b].result.kind = "throw"
                    /\ FailsWith(b, f, SubSeq(bundle'[b].result.value, 1, 1))
                    /\ tasks'[b][f].stage = "copy"
                       <=> bundle'[b].result.value[1] =
                               "Error while copying files: "
          /\ FailsOnce(b)
          /\ NoRollback(b)
          /\ NoRetry(b)]_vars

\* C8, amended: the first operation to fail makes generateBundle fail with
\* one error, "Error while copying files: " followed by the operation's
\* error, whichever the stage; what was written stays and nothing is retried
C8_FinalizeFailure ==
    [][\A b \in Plugins :
          /\ (NewlyRejected(b) # {} /\ bundle[b].phase # "threw")
             => \E f \in NewlyRejected(b) :
                    FailsWith(b, f, <<"Error while copying files: ">>)
          /\ FailsOnce(b)
          /\ NoRollback(b)
          /\ NoRetry(b)]_vars

\* C8's case: a stylesheet's transform has failed, generateBundle has
\* thrown, and another asset's output is on disk
C8_Witness ==
    /\ bundle["b1"].phase = "threw"
    /\ bundle["b1"].result.value =
           <<"Error while copying files: ", "CssSyntaxError">>
    /\ \E f \in DOMAIN tasks["b1"] :
           /\ tasks["b1"][f].stage = "copy"
           /\ tasks["b1"][f].fileDest \in DOMAIN outfs["b1"]

\* C9: generateBundle takes as output folder the directory it is given,
\* else the directory of the file it is given; every asset's operation
\* targets the output folder, a slash, and the output path files holds for
\* the asset, and when the call has returned the file is there; with the
\* default naming the stylesheet main.scss is at <output folder>/<hash>.scss
C9_OutputLayout ==
    \A b \in Plugins :
        bundle[b].phase # "idle"
        => LET out == bundle[b].output
               outputRoot == IF out.dir # <<>> THEN out.dir
                             ELSE SubSeq(out.file, 1,
                                         LastIndexOf(out.file, Slash) - 1)
           IN  /\ bundle[b].outputFolder = outputRoot
               /\ outputRoot \in {<<"dist">>, <<"output">>}
               /\ \A f \in DOMAIN files[b] :
                      /\ f \in DOMAIN tasks[b]
                      /\ tasks[b][f].fileDest =
                             outputRoot \o <<Slash>> \o files[b][f]
                      /\ bundle[b].phase = "returned"
                         => tasks[b][f].fileDest \in DOMAIN outfs[b]
               /\ (/\ bundle[b].phase = "returned"
                   /\ ~options[b].skipHash
                   /\ ~options[b].keepName
                   /\ options[b].assetFolder = <<>>
                   /\ MainScss \in DOMAIN files[b])
                  => (outputRoot \o <<Slash>>
                         \o getHash(disk[b][MainScss]) \o <<Dot, "scss">>)
                         \in DOMAIN outfs[b]

\* C9's case: under the defaults the entry and its import of ./main.scss
\* are resolved, and generateBundle, given a file, has returned
C9_Witness ==
    /\ bundle["b1"].phase = "returned"
    /\ bundle["b1"].output.dir = <<>>
    /\ options["b1"] = DefaultOptions
    /\ root["b1"] = ProjDir
    /\ \E h \in handled["b1"] :
           h.fileSource = MainScss /\ h.importer = IndexJs

\* the step ends a resolveId call of instance b: one that returns at once,
\* or one whose slot the step frees
CallEnds(b) ==
    /\ last'.hook = "resolveId"
    /\ last'.plugin = b
    /\ \/ CallStarts(b) /\ calls'[b] = calls[b]
       \/ \E s \in Slots : calls[b][s].pc # "idle" /\ calls'[b][s].pc = "idle"

\* the extensions of the script family
ScriptFamily == {<<Dot, w>> : w \in {"json", "mjs", "js", "jsx", "ts", "tsx"}}

\* the absolute source path of a reference
SourceOf(importee, importer) == resolve2(dirname(importer), importee)

\* the checks of C10 all pass for the reference
Qualifies(b, importee, importer) ==
    /\ importer # Null
    /\ importee \notin DOMAIN assets[b]
    /\ extname(importee) # <<>>
    /\ extname(importee) \notin ScriptFamily
    /\ createFilter(options[b].include, options[b].exclude,
                    SourceOf(importee, importer))
    /\ SourceOf(importee, importer) \in DOMAIN disk[b]

\* the answer C10 gives for the reference: false for a registered asset id
\* that has an importer, the wrapper id root/<output path>.js when every
\* check passes, null otherwise
Decision(b, importee, importer) ==
    IF importer # Null /\ importee \in DOMAIN assets[b] THEN FalseResult
    ELSE IF Qualifies(b, importee, importer)
    THEN IdResult(root[b] \o <<Slash>>
                     \o files'[b][SourceOf(importee, importer)]
                     \o <<Dot, "js">>)
    ELSE NullResult

\* C10 as stated: every resolveId call is answered as the checks decide
C10_Original ==
    [][\A b \in Plugins :
          CallEnds(b)
          => last'.result = Decision(b, last'.importee, last'.importer)]_vars

\* what of C10 holds: the same, when root is set and the referenced path is
\* no property name of Object.prototype
C10_RootSet ==
    [][\A b \in Plugins :
          (/\ CallEnds(b)
           /\ root[b] # Null
           /\ last'.importee \notin ObjectPrototypeKeys)
          => last'.result = Decision(b, last'.importee, last'.importer)]_vars

EntryDirectory(e) ==
    LET abs == IF e[1] = Slash THEN e ELSE Cwd \o <<Slash>> \o e
    IN  SubSeq(abs, 1, LastIndexOf(abs, Slash) - 1)

\* C12: a step changes files, assets or wrappers only when it ends a
\* resolveId call that returns an id (or throws), so a call that returns
\* null or false has left them as they were; a call with no importer
\* returns null and sets root to the directory of the resolved entry path;
\* no other step changes root
C12_NoRegistryEffect ==
    [][\A b \in Plugins :
          /\ ~RegistriesKept(b)
             => CallEnds(b) /\ last'.result.kind \in {"id", "throw"}
          /\ (CallEnds(b) /\ last'.result.kind \in {"null", "false"})
             => RegistriesKept(b)
          /\ (CallEnds(b) /\ last'.importer = Null)
             => /\ last'.result = NullResult
                /\ root'[b] = EntryDirectory(last'.importee)
          /\ root'[b] # root[b]
             => CallEnds(b) /\ last'.importer = Null]_vars

\* C12's case: with an asset registered, a reference to a file that is
\* not on disk was answered null
C12_Witness ==
    /\ last.hook = "resolveId"
    /\ last.result = NullResult
    /\ last.importer # Null
    /\ extname(last.importee) = <<Dot, "reduce">>
    /\ files["b1"] # <<>>
    /\ root["b1"] # Null

\* the getHash calls instance b has made for source f
HashesOf(b, f) == IF f \in DOMAIN hashes[b] THEN hashes[b][f] ELSE 0

\* C13 as stated: with hashing enabled, a source path that references
\* from different importers were resolved to has been hashed once, not once
\* per reference
C13_Original ==
    \A b \in Plugins :
        ~options[b].skipHash
        => \A h1 \in handled[b], h2 \in handled[b] :
               (h1.fileSource = h2.fileSource /\ h1.importer # h2.importer)
               => HashesOf(b, h1.fileSource) = 1

\* resolveId(importee, importer) run from the current state with nothing
\* in between: what it returns and how it leaves root and the registries
Uninterrupted(b, importee, importer) ==
    LET o == options[b]
        keep == [result |-> NullResult, root |-> root[b], files |-> files[b],
                 assets |-> assets[b], wrappers |-> wrappers[b]]
        src == SourceOf(importee, importer)
        ext == TargetExt(extname(importee))
        name == FileName(importee, ext)
        target == IF o.skipHash THEN PlainTarget(name, ext)
                  ELSE HashedTarget(o.keepName, name, getHash(disk[b][src]), ext)
        dest == OutputPath(o.assetFolder, target)
        assetId == AssetId(root[b], o.assetFolder, target)
    IN  IF importer = Null
        THEN [keep EXCEPT !.root = dirname(resolve1(importee))]
        ELSE IF IsRebaseAsset(b, importee)
        THEN [keep EXCEPT !.result = FalseResult]
        ELSE IF \/ extname(importee) = <<>>
                \/ extname(importee) \in scriptExtensions
                \/ ~filter(b, src)
                \/ src \notin DOMAIN disk[b]
        THEN keep
        ELSE IF root[b] = Null
        THEN [keep EXCEPT !.result = Thrown(<<"TypeError">>),
                          !.files = (src :> dest) @@ @]
        ELSE [result |-> IdResult(WrapperId(assetId)),
              root |-> root[b],
              files |-> (src :> dest) @@ files[b],
              assets |-> (assetId :> TRUE) @@ assets[b],
              wrappers |-> (WrapperId(assetId) :> assetId) @@ wrappers[b]]

\* a step that does not end a call leaves root and the registries alone,
\* and the step that ends a call leaves them, and returns, as the call run
\* uninterrupted at that moment would: the interleaved calls are the same
\* calls run one after another, in the order they end
Serial(b) ==
    IF CallEnds(b)
    THEN LET u == Uninterrupted(b, last'.importee, last'.importer)
         IN  /\ last'.result = u.result
             /\ root'[b] = u.root
             /\ files'[b] = u.files
             /\ assets'[b] = u.assets
             /\ wrappers'[b] = u.wrappers
    ELSE RegistriesKept(b) /\ root'[b] = root[b]

\* calls from different importers that were in flight together for one
\* source path have returned
\* the same wrapper id, and files holds the one output path both decided
SameAnswer(b) ==
    \A h1 \in handled[b], h2 \in handled[b] :
        (/\ h1.fileSource = h2.fileSource
         /\ h1.importer # h2.importer
         /\ h2.n \in h1.with)
        => /\ h1.id = h2.id
           /\ h1.dest = h2.dest
           /\ files[b][h1.fileSource] = h1.dest

\* C14 as stated: resolveId calls interleaved at their awaits leave the
\* registries, and return, as the same calls run one after another; and two
\* calls in flight together for one source path end with one record in
\* files and the same wrapper id returned to both
C14_Original ==
    [][\A b \in Plugins : Serial(b) /\ SameAnswer(b)']_vars

\* what of C14 holds: the interleaved calls are the same calls run one
\* after another, in the order they end
C14_Serial ==
    [][\A b \in Plugins : Serial(b)]_vars

\* nothing of the operation on asset f is under way any more
Settled(b, f) ==
    /\ tasks[b][f].pc = "stopped"
    /\ tasks[b][f].css # "pending"
    /\ tasks[b][f].map # "pending"
    /\ tasks[b][f].promise # "pending"

\* generateBundle has started an operation for every asset of files
AllStarted(b) ==
    bundle[b].phase # "idle" => DOMAIN tasks[b] = DOMAIN files[b]

\* C15 as stated: every asset's operation is started by the call, and when
\* generateBundle has returned or thrown no operation is under way any more
C15_Original ==
    \A b \in Plugins :
        /\ AllStarted(b)
        /\ bundle[b].phase \in {"returned", "threw"}
           => \A f \in DOMAIN tasks[b] : Settled(b, f)

\* what of C15 holds: every operation is started by the call, and when
\* generateBundle has returned none is under way any more
C15_ReturnWaits ==
    \A b \in Plugins :
        /\ AllStarted(b)
        /\ bundle[b].phase = "returned"
           => \A f \in DOMAIN tasks[b] :
                  Settled(b, f) /\ tasks[b][f].promise = "fulfilled"

\* the step is one of generateBundle or of its operations, of instance b
EmitStep(b) ==
    \/ bundle'[b] # bundle[b]
    \/ tasks'[b] # tasks[b]
    \/ outfs'[b] # outfs[b]
    \/ writes'[b] # writes[b]

\* C16: a load call and every step of generateBundle, failing or not,
\* leave files, assets, wrappers and root as they are; only the step that
\* ends a resolveId call changes any of them
C16_ReadOnlyConsumers ==
    [][\A b \in Plugins :
          /\ (LoadCalled(b) \/ EmitStep(b))
             => RegistriesKept(b) /\ root'[b] = root[b]
          /\ (~RegistriesKept(b) \/ root'[b] # root[b]) => CallEnds(b)]_vars

\* C16's case: with assets registered and a wrapper loaded before,
\* generateBundle has failed after a first write
C16_Witness ==
    /\ bundle["b1"].phase = "threw"
    /\ outfs["b1"] # <<>>
    /\ Cardinality(DOMAIN files["b1"]) = 2
    /\ Cardinality(DOMAIN wrappers["b1"]) = 2

\* the step is a hook call, or a step of one, of instance b
ActsOn(b) ==
    \/ nResolve'[b] # nResolve[b]
    \/ calls'[b] # calls[b]
    \/ last' # last /\ last'.plugin = b
    \/ EmitStep(b)

\* an instance no resolveId call was made on has no root and empty
\* registries
Fresh(b) ==
    nResolve[b] = 0
    => /\ root[b] = Null
       /\ files[b] = <<>>
       /\ assets[b] = <<>>
       /\ wrappers[b] = <<>>

\* C17: an instance starts with no root and empty registries, and a step
\* of one instance leaves the other's root and registries as they are, and
\* its options and files, which is all its resolveId answers from; what
\* the other's load, isRebaseWrapper, isRebaseAsset and isRebaseSource
\* answer stays the same
C17_InstanceIsolation ==
    [][\A b \in Plugins :
          /\ Fresh(b)
          /\ \A c \in Plugins \ {b} :
                 ActsOn(b)
                 => /\ RegistriesKept(c)
                    /\ root'[c] = root[c]
                    /\ options'[c] = options[c]
                    /\ disk'[c] = disk[c]
                    /\ \A id \in LoadIds(c) :
                           /\ loadResult(c, id)' = loadResult(c, id)
                           /\ IsSet(wrappers[c], id)' = IsSet(wrappers[c], id)
                           /\ IsSet(assets[c], id)' = IsSet(assets[c], id)
                    /\ \A f \in SourceFiles :
                           IsSet(files[c], f)' = IsSet(files[c], f)]_vars

\* C17's case: both instances have registered the two assets, each under
\* its own names, and the first has emitted them
C17_Witness ==
    /\ bundle["b1"].phase = "returned"
    /\ DOMAIN files["b1"] = {PLogo, MainScss}
    /\ DOMAIN files["b2"] = {PLogo, MainScss}
    /\ files["b1"] # files["b2"]

\* the wrapper ids resolveId has returned for source f
IdsOf(b, f) == {h.id : h \in {g \in handled[b] : g.fileSource = f}}

\* C18 as stated: every source resolveId has answered with an id has one
\* wrapper id, whatever the importers and however many the references, and
\* there are no more wrappers and asset ids than registered sources
C18_Original ==
    \A b \in Plugins :
        /\ \A h \in handled[b] : Cardinality(IdsOf(b, h.fileSource)) = 1
        /\ Cardinality(DOMAIN wrappers[b]) <= Cardinality(DOMAIN files[b])
        /\ Cardinality(DOMAIN assets[b]) <= Cardinality(DOMAIN files[b])

\* C19 as stated: whenever no resolveId call is in flight, every record of
\* files has its asset id root/<output path> in assets and a wrapper that
\* targets it
C19_Original ==
    \A b \in Plugins :
        Quiet(b)
        => \A f \in DOMAIN files[b] :
               LET assetId == root[b] \o <<Slash>> \o files[b][f]
               IN  /\ assetId \in DOMAIN assets[b]
                   /\ \E w \in DOMAIN wrappers[b] : wrappers[b][w] = assetId

\* two references to different sources with different contents were
\* answered with different output paths and different asset ids
Apart(b, h1, h2) ==
    (/\ h1.fileSource # h2.fileSource
     /\ disk[b][h1.fileSource] # disk[b][h2.fileSource])
    => /\ h1.dest # h2.dest
       /\ wrappers[b][h1.id] # wrappers[b][h2.id]

\* C20 as stated: under every naming policy, two registered sources with
\* different contents have different output paths and different asset ids
C20_Original ==
    \A b \in Plugins : \A h1 \in handled[b], h2 \in handled[b] :
        Apart(b, h1, h2)

\* what of C20 holds: the same, with hashing enabled
C20_Hashed ==
    \A b \in Plugins : \A h1 \in handled[b], h2 \in handled[b] :
        ~options[b].skipHash => Apart(b, h1, h2)

====
